---- MODULE Spec2Model ----
(***************************************************************************)
(* Model of kqueen/blueprints/api/views.py: the list views with their      *)
(* state refresh (ListClusters / ListProvisioners), cluster creation, the  *)
(* cluster engine endpoints (progress, resize, set_network_policy) and the *)
(* user update endpoints.                                                  *)
(***************************************************************************)
EXTENDS Naturals, Integers, Sequences, FiniteSets, TLC

\* ------------------------------------------------------------- bounds
\* number of objects in the listed collection (self.obj)
NObjs == 2
\* number of cluster create requests in one behaviour
MaxCreates == 2
\* number of provisioners
NProvs == 2
\* number of engines Provisioner.list_engines() returns, at most
MaxEngines == 3
\* number of objects of a list to filter or sort, at most
MaxList == 2
\* number of configured auth modules, at most
MaxAuthModules == 2
\* number of organizations
NOrgs == 2
\* number of policy requests, at most
MaxPolicyRequests == 2
\* number of clusters of the health collection in state OK, at most
MaxOK == 29
\* number of clusters of the health collection in state Error, at most
MaxError == 21
\* number of clusters of the health collection in each other state, at most
MaxOther == 1

Objs == 1..NObjs

\* ---------------------------------------------------------- constants
\* canonical state names (config.get('CLUSTER_*_STATE'))
CLUSTER_PROVISIONING_STATE == "Provisioning"
CLUSTER_OK_STATE == "OK"
CLUSTER_UPDATING_STATE == "Updating"
CLUSTER_ERROR_STATE == "Error"
CLUSTER_UNKNOWN_STATE == "Unknown"
PROVISIONER_OK_STATE == "OK"
PROVISIONER_ERROR_STATE == "Error"
PROVISIONER_UNKNOWN_STATE == "Unknown"

\* states an engine observation can report for a listed object
ObservedStates == {CLUSTER_OK_STATE, CLUSTER_ERROR_STATE, CLUSTER_UNKNOWN_STATE}

\* no object built yet, no engine result yet, no response yet
NoObj == [id |-> 0, provisioner |-> 0, state |-> "none"]
NoProvision == [status |-> FALSE, msg |-> "none"]
NoResponse == [code |-> 0, description |-> "none"]
NoListResponse == [states |-> <<>>, outcomes |-> <<>>]

VARIABLES
    \* ---- list views (ListClusters.get_content / ListProvisioners.get_content)
    view,        \* which list view serves the request
    flag,        \* config.get('CLUSTER_STATE_ON_LIST' / 'PROVISIONER_STATE_ON_LIST')
    lpc,         \* position of the request thread inside get_content
    state,       \* state[o]: the state field of object o of the collection
    prev,        \* prev[o]: the state of o when the request started
    thr,         \* thr[o]: the executor job running o's refresh operation
    fbIdx,       \* index of the fallback loop (for c in clusters)
    fbOrder,     \* objects the fallback loop has invoked, in invocation order
    calls,       \* calls[o]: refresh invocations on o in this request
    outcome,     \* outcome[o]: the state o's latest successful refresh stored,
                 \* "raised" when its refreshes only raised, "none" before
    response     \* the serialized list response (or "none")

listVars == <<view, flag, lpc, state, prev, thr, fbIdx, fbOrder, calls, outcome, response>>

VARIABLES
    \* ---- cluster creation (CreateCluster)
    cpc,         \* position of the create request
    provState,   \* provState[p]: the state field of provisioner p
    store,       \* store[c]: the persisted state of cluster c, or "absent"
    cobj,        \* self.obj: the cluster built from the payload, or "none"
    provision,   \* result of engine.provision() in this request, or "none"
    cresp        \* the response of the create request, or "none"

createVars == <<cpc, provState, store, cobj, provision, cresp>>

VARIABLES
    \* ---- cluster engine endpoints (cluster_progress, cluster_resize,
    \* ---- cluster_set_network_policy)
    opc,         \* position of the request
    handler,     \* the endpoint serving the request
    body,        \* request.json
    cstate,      \* the state field of the cluster the request is about
    engineCall,  \* the engine operation invoked in this request and how it ended
    oresp        \* the response of the request

opsVars == <<opc, handler, body, cstate, engineCall, oresp>>

VARIABLES
    \* ---- users (UpdateUser, user_password_update)
    upc,         \* position of the request
    uhandler,    \* the endpoint serving the request
    udata,       \* request.json
    user,        \* the stored user: its fields as persisted
    uobj,        \* the user object loaded by the request
    uresp,       \* the response code of the request
    uallowed     \* the Policy Engine's answer for the caller on the target user

userVars == <<upc, uhandler, udata, user, uobj, uresp, uallowed>>

VARIABLES
    \* ---- engine discovery (provisioner_engine_list)
    epc,         \* position of the request
    engines,     \* Provisioner.list_engines(): what each engine's lookup does
    eidx,        \* index of the loop (for engine in ...)
    engine_cls,  \* the entries collected so far
    eresp        \* the response code of the request (0: none yet)

engVars == <<epc, engines, eidx, engine_cls, eresp>>

VARIABLES
    \* ---- cluster health (GetClustersHealth)
    hpc,         \* position of the request
    clusters,    \* self.obj: how many clusters of the collection are in each state
    hresp        \* the content returned

healthVars == <<hpc, clusters, hresp>>

VARIABLES
    \* ---- filtering and sorting of a list (filter_objects, sort_objects)
    qpc,         \* position of the call
    qview,       \* the list view whose method is called
    qobjects,    \* the argument objects
    qfilters,    \* the argument filters
    qkey,        \* the argument key
    qorder,      \* the argument order
    qresult      \* the list returned

queryVars == <<qpc, qview, qobjects, qfilters, qkey, qorder, qresult>>

VARIABLES
    \* ---- organization policy (organization_policy)
    served,            \* number of policy requests served
    DEFAULT_POLICIES,  \* the dict config holds under 'DEFAULT_POLICIES'
    org_policy,        \* org_policy[o]: the policy attribute of organization o
    porg,              \* the organization of the latest request (0: none)
    presp              \* the response of the latest request

policyVars == <<served, DEFAULT_POLICIES, org_policy, porg, presp>>

VARIABLES
    \* ---- auth configuration (auth_params_configuration)
    apc,         \* position of the request
    auth_opts,   \* the options of the configured auth modules, in dict order
    aidx,        \* index of the loop (for name, configuration in ...)
    aresp        \* the response code of the request (0: none yet)

authVars == <<apc, auth_opts, aidx, aresp>>

VARIABLES
    \* ---- single cluster (GetCluster)
    gpc,         \* position of the request inside dispatch_request
    gcaller,     \* the caller: authenticated, object found, authorized
    gobj,        \* self.obj: the cluster loaded
    grefreshed,  \* update_state() has returned in this request
    gcluster,    \* the local variable cluster, when it is not self.obj itself
    gresp        \* the response of the request

getVars == <<gpc, gcaller, gobj, grefreshed, gcluster, gresp>>

\* the variables of the other endpoints
restVars == <<engVars, healthVars, queryVars, policyVars, authVars, getVars>>

vars == <<listVars, createVars, opsVars, userVars, restVars>>

notList == <<createVars, opsVars, userVars, restVars>>
notCreate == <<listVars, opsVars, userVars, restVars>>
notOps == <<listVars, createVars, userVars, restVars>>
notUsers == <<listVars, createVars, opsVars, restVars>>
notEngines == <<listVars, createVars, opsVars, userVars, healthVars, queryVars, policyVars, authVars, getVars>>
notHealth == <<listVars, createVars, opsVars, userVars, engVars, queryVars, policyVars, authVars, getVars>>
notQuery == <<listVars, createVars, opsVars, userVars, engVars, healthVars, policyVars, authVars, getVars>>
notPolicy == <<listVars, createVars, opsVars, userVars, engVars, healthVars, queryVars, authVars, getVars>>
notAuth == <<listVars, createVars, opsVars, userVars, engVars, healthVars, queryVars, policyVars, getVars>>
notGet == <<listVars, createVars, opsVars, userVars, engVars, healthVars, queryVars, policyVars, authVars>>

\* the collection in its original order (clusters = self.obj)
Collection == [i \in Objs |-> i]

\* ------------------------------------------------------------------------
\* List views: get_content with state refresh
\* ------------------------------------------------------------------------

InitList ==
    /\ view \in {"ListClusters", "ListProvisioners"}
    /\ flag \in BOOLEAN
    /\ lpc = "get_content"
    /\ state \in [Objs -> ObservedStates]
    /\ prev = state
    /\ thr = [o \in Objs |-> "none"]
    /\ fbIdx = 1
    /\ fbOrder = <<>>
    /\ calls = [o \in Objs |-> 0]
    /\ outcome = [o \in Objs |-> "none"]
    /\ response = NoListResponse

\* if config.get('..._STATE_ON_LIST'): enter the try block, else go straight
\* to super().get_content
get_content ==
    /\ lpc = "get_content"
    /\ lpc' = IF flag THEN "get_event_loop" ELSE "serialize"
    /\ UNCHANGED <<view, flag, state, prev, thr, fbIdx, fbOrder, calls, outcome, response>>
    /\ UNCHANGED notList

\* loop = asyncio.get_event_loop(); a closed loop or a RuntimeError leads to
\* new_event_loop
get_event_loop ==
    /\ lpc = "get_event_loop"
    /\ \E r \in {"open", "closed", "RuntimeError"} :
          lpc' = IF r = "open" THEN "run_until_complete" ELSE "new_event_loop"
    /\ UNCHANGED <<view, flag, state, prev, thr, fbIdx, fbOrder, calls, outcome, response>>
    /\ UNCHANGED notList

\* loop = asyncio.new_event_loop(); set_event_loop(loop): an error here is
\* caught by the outer except Exception
new_event_loop ==
    /\ lpc = "new_event_loop"
    /\ \E ok \in BOOLEAN :
          lpc' = IF ok THEN "run_until_complete" ELSE "fallback"
    /\ UNCHANGED <<view, flag, state, prev, thr, fbIdx, fbOrder, calls, outcome, response>>
    /\ UNCHANGED notList

\* loop.run_until_complete(self._update_clusters(clusters, loop)): either the
\* loop refuses to run (RuntimeError before the coroutine starts) or the
\* coroutine submits one executor job per object and awaits gather
run_in_executor ==
    /\ lpc = "run_until_complete"
    /\ \/ /\ lpc' = "fallback"
          /\ UNCHANGED thr
       \/ /\ thr' = [o \in Objs |-> "queued"]
          /\ lpc' = "gather"
    /\ UNCHANGED <<view, flag, state, prev, fbIdx, fbOrder, calls, outcome, response>>
    /\ UNCHANGED notList

\* an executor worker picks up the job of object o and calls its refresh
\* operation (cluster.update_state / provisioner.engine_status)
executor_call(o) ==
    /\ thr[o] = "queued"
    /\ thr' = [thr EXCEPT ![o] = "running"]
    /\ calls' = [calls EXCEPT ![o] = @ + 1]
    /\ UNCHANGED <<view, flag, lpc, state, prev, fbIdx, fbOrder, outcome, response>>
    /\ UNCHANGED notList

\* the refresh operation of o returns in its executor thread: it stores the
\* observed state, or raises and leaves the state as it was
executor_return(o) ==
    /\ thr[o] = "running"
    /\ \/ \E v \in ObservedStates :
            /\ state' = [state EXCEPT ![o] = v]
            /\ outcome' = [outcome EXCEPT ![o] = v]
            /\ thr' = [thr EXCEPT ![o] = "returned"]
       \/ /\ outcome' = [outcome EXCEPT ![o] = IF @ = "none" THEN "raised" ELSE @]
          /\ thr' = [thr EXCEPT ![o] = "raised"]
          /\ UNCHANGED state
    /\ UNCHANGED <<view, flag, lpc, prev, fbIdx, fbOrder, calls, response>>
    /\ UNCHANGED notList

\* await asyncio.gather(*futures) with every future done and none failed:
\* run_until_complete returns
gather_returns ==
    /\ lpc = "gather"
    /\ \A o \in Objs : thr[o] = "returned"
    /\ lpc' = "close"
    /\ UNCHANGED <<view, flag, state, prev, thr, fbIdx, fbOrder, calls, outcome, response>>
    /\ UNCHANGED notList

\* await asyncio.gather(*futures) without return_exceptions: the first failed
\* future's exception is raised out of run_until_complete at once, the other
\* executor jobs keep running
gather_raises ==
    /\ lpc = "gather"
    /\ \E o \in Objs : thr[o] = "raised"
    /\ lpc' = "fallback"
    /\ UNCHANGED <<view, flag, state, prev, thr, fbIdx, fbOrder, calls, outcome, response>>
    /\ UNCHANGED notList

\* loop.close(): an error here is caught by the outer except Exception too
loop_close ==
    /\ lpc = "close"
    /\ \E ok \in BOOLEAN :
          lpc' = IF ok THEN "serialize" ELSE "fallback"
    /\ UNCHANGED <<view, flag, state, prev, thr, fbIdx, fbOrder, calls, outcome, response>>
    /\ UNCHANGED notList

\* except Exception: for c in clusters: c.update_state()  -- the call
fallback_call ==
    /\ lpc = "fallback"
    /\ IF fbIdx <= NObjs
         THEN /\ lpc' = "fallback_running"
              /\ calls' = [calls EXCEPT ![Collection[fbIdx]] = @ + 1]
              /\ fbOrder' = Append(fbOrder, Collection[fbIdx])
         ELSE /\ lpc' = "serialize"       \* self.obj = clusters
              /\ UNCHANGED <<calls, fbOrder>>
    /\ UNCHANGED <<view, flag, state, prev, thr, fbIdx, outcome, response>>
    /\ UNCHANGED notList

\* except Exception: for c in clusters: c.update_state()  -- the return. The
\* loop body is not guarded: an exception of the refresh operation leaves
\* get_content
fallback_return ==
    /\ lpc = "fallback_running"
    /\ LET o == Collection[fbIdx] IN
       \/ \E v \in ObservedStates :
            /\ state' = [state EXCEPT ![o] = v]
            /\ outcome' = [outcome EXCEPT ![o] = v]
            /\ fbIdx' = fbIdx + 1
            /\ lpc' = "fallback"
       \/ /\ outcome' = [outcome EXCEPT ![o] = IF @ = "none" THEN "raised" ELSE @]
          /\ lpc' = "raised"
          /\ UNCHANGED <<state, fbIdx>>
    /\ UNCHANGED <<view, flag, prev, thr, fbOrder, calls, response>>
    /\ UNCHANGED notList

\* return super().get_content(...): the collection is serialized as it is now
super_get_content ==
    /\ lpc = "serialize"
    /\ response' = [states |-> state, outcomes |-> outcome]
    /\ lpc' = "done"
    /\ UNCHANGED <<view, flag, state, prev, thr, fbIdx, fbOrder, calls, outcome>>
    /\ UNCHANGED notList

NextList ==
    \/ get_content
    \/ get_event_loop
    \/ new_event_loop
    \/ run_in_executor
    \/ \E o \in Objs : executor_call(o)
    \/ \E o \in Objs : executor_return(o)
    \/ gather_returns
    \/ gather_raises
    \/ loop_close
    \/ fallback_call
    \/ fallback_return
    \/ super_get_content

\* ------------------------------------------------------------------------
\* Cluster creation: CreateCluster.save_object / after_save
\* ------------------------------------------------------------------------

Provs == 1..NProvs
ClusterIds == 1..MaxCreates

ClusterStates == {CLUSTER_PROVISIONING_STATE, CLUSTER_OK_STATE, CLUSTER_UPDATING_STATE,
                  CLUSTER_ERROR_STATE, CLUSTER_UNKNOWN_STATE}
ProvisionerStates == {PROVISIONER_OK_STATE, PROVISIONER_ERROR_STATE, PROVISIONER_UNKNOWN_STATE}

\* messages an engine returns with its success flag
EngineMsgs == {"msg1", "msg2"}

MalfunctioningMsg == "Cannot create cluster with malfunctioning Provisioner"

\* the list views are not serving a request
ParkList ==
    /\ view = "ListClusters"
    /\ flag = FALSE
    /\ lpc = "off"
    /\ state = [o \in Objs |-> CLUSTER_UNKNOWN_STATE]
    /\ prev = state
    /\ thr = [o \in Objs |-> "none"]
    /\ fbIdx = 1
    /\ fbOrder = <<>>
    /\ calls = [o \in Objs |-> 0]
    /\ outcome = [o \in Objs |-> "none"]
    /\ response = NoListResponse

InitCreate ==
    /\ cpc = "idle"
    /\ provState \in [Provs -> ProvisionerStates]
    /\ store = [c \in ClusterIds |-> "absent"]
    /\ cobj = NoObj
    /\ provision = NoProvision
    /\ cresp = NoResponse

\* CreateView.dispatch_request up to the save_object hook: the object is built
\* from the payload (its provisioner and its state) under a fresh id
create_request ==
    /\ cpc \in {"idle", "done"}
    /\ cobj.id < MaxCreates
    /\ \E p \in Provs, s \in ClusterStates :
          cobj' = [id |-> cobj.id + 1, provisioner |-> p, state |-> s]
    /\ provision' = NoProvision
    /\ cresp' = NoResponse
    /\ cpc' = "save_object"
    /\ UNCHANGED <<provState, store>>
    /\ UNCHANGED notCreate

\* CreateView.save_object: self.obj.save()
super_save_object == store' = [store EXCEPT ![cobj.id] = cobj.state]

\* CreateCluster.save_object without the provisioner check
save_object_unchecked ==
    /\ cpc = "save_object"
    /\ super_save_object
    /\ cpc' = "after_save"
    /\ UNCHANGED <<provState, cobj, provision, cresp>>
    /\ UNCHANGED notCreate

\* CreateCluster.save_object: abort(500) for a provisioner that is not in the
\* OK state, else the parent's save
save_object ==
    /\ cpc = "save_object"
    /\ IF provState[cobj.provisioner] # PROVISIONER_OK_STATE
         THEN /\ cresp' = [code |-> 500, description |-> MalfunctioningMsg]
              /\ cpc' = "done"
              /\ UNCHANGED store
         ELSE /\ super_save_object
              /\ cpc' = "after_save"
              /\ UNCHANGED cresp
    /\ UNCHANGED <<provState, cobj, provision>>
    /\ UNCHANGED notCreate

\* CreateCluster.after_save: engine.provision(); on failure the state
\* attribute of self.obj is set to the Error state and the request aborts
\* with the engine's message
after_save ==
    /\ cpc = "after_save"
    /\ \E prov_status \in BOOLEAN, prov_msg \in EngineMsgs :
          /\ provision' = [status |-> prov_status, msg |-> prov_msg]
          /\ IF ~prov_status
               THEN /\ cobj' = [cobj EXCEPT !.state = CLUSTER_ERROR_STATE]
                    /\ cresp' = [code |-> 500, description |-> prov_msg]
               ELSE /\ cresp' = [code |-> 200, description |-> "created"]
                    /\ UNCHANGED cobj
    /\ cpc' = "done"
    /\ UNCHANGED <<provState, store>>
    /\ UNCHANGED notCreate

NextCreate ==
    \/ create_request
    \/ save_object
    \/ after_save

\* ------------------------------------------------------------------------
\* Cluster engine endpoints: cluster_progress, cluster_resize,
\* cluster_set_network_policy
\* ------------------------------------------------------------------------

\* the field names the two PATCH endpoints look for
BodyKeys == {"node_count", "provider", "enabled"}

\* request.json: no JSON (None), a scalar (number, true, false), or an object,
\* an array or a string. members are the names k of BodyKeys with `k in data`
\* true (keys of the object, elements of the array, substrings of the
\* string); empty says that the value is falsy (None, 0, false, {}, [], "")
JsonBodies ==
    {[kind |-> "null", empty |-> TRUE, members |-> {}]}
    \cup {[kind |-> "scalar", empty |-> e, members |-> {}] : e \in BOOLEAN}
    \cup {[kind |-> k, empty |-> TRUE, members |-> {}] : k \in {"object", "array", "string"}}
    \cup {[kind |-> k, empty |-> FALSE, members |-> m] :
              k \in {"object", "array", "string"}, m \in SUBSET BodyKeys}

NoBody == [kind |-> "null", empty |-> TRUE, members |-> {}]

\* isinstance(data, dict)
IsDict(data) == data.kind = "object"

\* `k in data`: a TypeError for a scalar and for None
Contains(data, k) ==
    IF data.kind \in {"scalar", "null"} THEN "TypeError"
    ELSE IF k \in data.members THEN "True" ELSE "False"

\* data[k]: the value for a key of an object, else KeyError or TypeError
Subscript(data, k) ==
    IF data.kind = "object"
      THEN IF k \in data.members THEN "value" ELSE "KeyError"
      ELSE "TypeError"

\* responses: code 0 is no response yet; description is the abort message or
\* the engine's message; result is the JSON body of a 200
\* no engine operation invoked yet
NoEngineCall == [op |-> "none", outcome |-> "none", msg |-> "none"]

NoResult == [response |-> 0, progress |-> 0, result |-> "none"]
NoOpsResponse == [code |-> 0, description |-> "none", result |-> NoResult]
\* abort(code, description=...)
Abort(code, description) == [code |-> code, description |-> description, result |-> NoResult]
\* an exception nobody catches leaves the handler: Flask answers 500
Unhandled(exc) == [code |-> 500, description |-> exc, result |-> NoResult]
\* return jsonify(result)
Jsonify(result) == [code |-> 200, description |-> "none", result |-> result]
\* output = obj.engine.cluster
EngineCluster == [response |-> 0, progress |-> 0, result |-> "engine.cluster"]

\* progress descriptors an engine returns from get_progress()
EngineProgress == {[response |-> 200, progress |-> 50, result |-> CLUSTER_PROVISIONING_STATE],
                   [response |-> 200, progress |-> 100, result |-> CLUSTER_OK_STATE]}

InitOps ==
    /\ opc = "idle"
    /\ handler = "none"
    /\ body = NoBody
    /\ cstate \in ClusterStates
    /\ engineCall = NoEngineCall
    /\ oresp = NoOpsResponse

\* a request reaches one of the three endpoints; get_object(Cluster, pk,
\* current_identity) loads the cluster
ops_request ==
    /\ opc \in {"idle", "done"}
    /\ \E h \in {"cluster_progress", "cluster_resize", "cluster_set_network_policy"} :
          /\ handler' = h
          /\ IF h = "cluster_progress"
               THEN /\ body' = NoBody
                    /\ opc' = "get_progress"
               ELSE /\ body' \in JsonBodies
                    /\ opc' = "validate"
    /\ engineCall' = NoEngineCall
    /\ oresp' = NoOpsResponse
    /\ UNCHANGED cstate
    /\ UNCHANGED notOps

\* cluster_progress: progress = obj.engine.get_progress() with its two
\* except clauses
cluster_progress ==
    /\ opc = "get_progress"
    /\ \/ \E progress \in EngineProgress :
             /\ engineCall' = [op |-> "get_progress", outcome |-> "returned", msg |-> "none"]
             /\ oresp' = Jsonify(progress)
             /\ opc' = "done"
       \/ \* except NotImplementedError: the dict is built with obj.update_state()
          /\ engineCall' = [op |-> "get_progress", outcome |-> "NotImplementedError", msg |-> "none"]
          /\ opc' = "update_state"
          /\ UNCHANGED oresp
       \/ \* except Exception
          /\ engineCall' = [op |-> "get_progress", outcome |-> "Exception", msg |-> "none"]
          /\ oresp' = Jsonify([response |-> 500, progress |-> 0, result |-> CLUSTER_UNKNOWN_STATE])
          /\ opc' = "done"
    /\ UNCHANGED <<handler, body, cstate>>
    /\ UNCHANGED notOps

\* cluster_progress, inside except NotImplementedError: 'result':
\* obj.update_state(). The call returns the refreshed state, or raises; an
\* exception raised inside an except clause is not caught by the except
\* Exception clause next to it
cluster_progress_update_state ==
    /\ opc = "update_state"
    /\ \/ \E v \in ClusterStates :
             /\ cstate' = v
             /\ oresp' = Jsonify([response |-> 501, progress |-> 0, result |-> v])
       \/ /\ oresp' = Unhandled("update_state raised")
          /\ UNCHANGED cstate
    /\ opc' = "done"
    /\ UNCHANGED <<handler, body, engineCall>>
    /\ UNCHANGED notOps

\* cluster_resize: not isinstance(data, dict) or 'node_count' not in data
ResizeBodyRejected(data) == ~IsDict(data) \/ (IsDict(data) /\ Contains(data, "node_count") # "True")

\* cluster_resize: the validation of the body, abort(400)
cluster_resize_validate ==
    /\ opc = "validate"
    /\ handler = "cluster_resize"
    /\ IF ResizeBodyRejected(body)
         THEN /\ oresp' = Abort(400, "Bad Request")
              /\ opc' = "done"
         ELSE /\ opc' = "engine"
              /\ UNCHANGED oresp
    /\ UNCHANGED <<handler, body, cstate, engineCall>>
    /\ UNCHANGED notOps

\* cluster_resize: res_status, res_msg = obj.engine.resize(data['node_count'])
\* and what follows it
cluster_resize ==
    /\ opc = "engine"
    /\ handler = "cluster_resize"
    /\ IF Subscript(body, "node_count") # "value"
         THEN /\ oresp' = Unhandled(Subscript(body, "node_count"))
              /\ UNCHANGED engineCall
         ELSE \E res_status \in BOOLEAN, res_msg \in EngineMsgs :
                 /\ engineCall' = [op |-> "resize", outcome |-> IF res_status THEN "success" ELSE "failure",
                                   msg |-> res_msg]
                 /\ oresp' = IF ~res_status THEN Abort(500, res_msg)
                                         ELSE Jsonify(EngineCluster)
    /\ opc' = "done"
    /\ UNCHANGED <<handler, body, cstate>>
    /\ UNCHANGED notOps

\* cluster_set_network_policy: the two validations of the body
cluster_set_network_policy_validate ==
    /\ opc = "validate"
    /\ handler = "cluster_set_network_policy"
    /\ IF body.empty
         THEN \* if not request.json
              /\ oresp' = Abort(400, "JSON data expected")
              /\ opc' = "done"
         ELSE IF Contains(body, "provider") = "TypeError"
         THEN \* `k in data` raises for a scalar
              /\ oresp' = Unhandled("TypeError")
              /\ opc' = "done"
         ELSE IF ~(Contains(body, "provider") = "True" /\ Contains(body, "enabled") = "True")
         THEN /\ oresp' = Abort(400, "Incorrect network policy configuration")
              /\ opc' = "done"
         ELSE /\ opc' = "engine"
              /\ UNCHANGED oresp
    /\ UNCHANGED <<handler, body, cstate, engineCall>>
    /\ UNCHANGED notOps

\* cluster_set_network_policy: obj.engine.set_network_policy(data['provider'],
\* data['enabled']) and what follows it
cluster_set_network_policy ==
    /\ opc = "engine"
    /\ handler = "cluster_set_network_policy"
    /\ IF Subscript(body, "provider") # "value"
         THEN /\ oresp' = Unhandled(Subscript(body, "provider"))
              /\ UNCHANGED engineCall
         ELSE \E res_status \in BOOLEAN, res_msg \in EngineMsgs :
                 /\ engineCall' = [op |-> "set_network_policy", outcome |-> IF res_status THEN "success" ELSE "failure",
                                   msg |-> res_msg]
                 /\ oresp' = IF ~res_status THEN Abort(500, res_msg)
                                         ELSE Jsonify(EngineCluster)
    /\ opc' = "done"
    /\ UNCHANGED <<handler, body, cstate>>
    /\ UNCHANGED notOps

NextOps ==
    \/ ops_request
    \/ cluster_progress
    \/ cluster_progress_update_state
    \/ cluster_resize_validate
    \/ cluster_resize
    \/ cluster_set_network_policy_validate
    \/ cluster_set_network_policy

\* ------------------------------------------------------------------------
\* Users: UpdateUser.dispatch_request, user_password_update
\* ------------------------------------------------------------------------

\* passwords a client submits, and values of another field of the user
Plaintexts == {"pw1", "pw2"}
Emails == {"a@x", "b@x"}

\* kqueen.auth.encrypt_password: the hash of a password; None (no 'password'
\* in the payload) cannot be hashed
encrypt_password(_password) ==
    CASE _password = "pw1" -> "$2b$pw1"
      [] _password = "pw2" -> "$2b$pw2"
      [] OTHER -> "raise"

Hashes == {encrypt_password(p) : p \in Plaintexts}

\* request.json of the two endpoints: as JsonBodies, with the values an object
\* gives to 'password' and to 'email' ("absent": no such key)
UserBodies ==
    {[kind |-> k, empty |-> TRUE, password |-> "absent", email |-> "absent"] :
         k \in {"null", "scalar", "object", "array", "string"}}
    \cup {[kind |-> k, empty |-> FALSE, password |-> "absent", email |-> "absent"] :
         k \in {"scalar", "array", "string"}}
    \cup {[kind |-> "object", empty |-> FALSE, password |-> pw, email |-> e] :
         pw \in Plaintexts \cup {"absent"}, e \in Emails \cup {"absent"}}

NoUserBody == [kind |-> "null", empty |-> TRUE, password |-> "absent", email |-> "absent"]

InitUsers ==
    /\ upc = "idle"
    /\ uhandler = "none"
    /\ udata = NoUserBody
    /\ user \in [password : Hashes, email : Emails]
    /\ uobj = user
    /\ uresp = 0
    /\ uallowed = TRUE

\* a request reaches PATCH /users/<pk> or PATCH /users/<pk>/updatepw
user_request ==
    /\ upc \in {"idle", "done"}
    /\ uhandler' \in {"UpdateUser", "user_password_update"}
    /\ udata' \in UserBodies
    /\ upc' = "validate"
    /\ uresp' = 0
    /\ uallowed' \in BOOLEAN
    /\ UNCHANGED <<user, uobj>>
    /\ UNCHANGED notUsers

\* helpers.get_object(User, pk, current_identity): loads the object for the
\* caller and consults the Policy Engine
GetObjectDenied == uhandler = "user_password_update" /\ ~uallowed

\* both endpoints: if not request.json: abort(400); if not isinstance(data,
\* dict): abort(400); the object is loaded from the store (set_object in
\* UpdateUser, which calls no check_authorization; get_object in
\* user_password_update)
user_validate ==
    /\ upc = "validate"
    /\ IF GetObjectDenied
         THEN /\ uresp' = 403
              /\ upc' = "done"
         ELSE IF udata.empty \/ udata.kind # "object"
         THEN /\ uresp' = 400
              /\ upc' = "done"
         ELSE /\ uresp' = 0
              /\ upc' = "patch"
    /\ uobj' = user
    /\ UNCHANGED <<uhandler, udata, user, uallowed>>
    /\ UNCHANGED notUsers

\* UpdateUser.dispatch_request with the payload's password kept
KeepPassword(data) == data

\* UpdateUser.dispatch_request: if 'password' in data: del data['password']
DelPassword(data) == [data EXCEPT !.password = "absent"]

\* for key, value in data.items(): setattr(obj, key, value)
SetAttrs(obj, data) ==
    [password |-> IF data.password # "absent" THEN data.password ELSE obj.password,
     email |-> IF data.email # "absent" THEN data.email ELSE obj.email]

\* UpdateUser.dispatch_request after the validation: the patch, self.obj.save()
\* (abort(500) when it raises) and the response
UpdateUser ==
    /\ upc = "patch"
    /\ uhandler = "UpdateUser"
    /\ uobj' = SetAttrs(uobj, DelPassword(udata))
    /\ \/ /\ user' = uobj'
          /\ uresp' = 200
       \/ /\ uresp' = 500
          /\ UNCHANGED user
    /\ upc' = "done"
    /\ UNCHANGED <<uhandler, udata, uallowed>>
    /\ UNCHANGED notUsers

\* user_password_update after the validation: obj.password =
\* encrypt_password(data.get('password')), obj.save() (abort(500) when it
\* raises) and the response
user_password_update ==
    /\ upc = "patch"
    /\ uhandler = "user_password_update"
    /\ IF encrypt_password(udata.password) = "raise"
         THEN /\ uresp' = 500
              /\ UNCHANGED <<user, uobj>>
         ELSE /\ uobj' = [uobj EXCEPT !.password = encrypt_password(udata.password)]
              /\ \/ /\ user' = uobj'
                    /\ uresp' = 200
                 \/ /\ uresp' = 500
                    /\ UNCHANGED user
    /\ upc' = "done"
    /\ UNCHANGED <<uhandler, udata, uallowed>>
    /\ UNCHANGED notUsers

NextUsers ==
    \/ user_request
    \/ user_validate
    \/ UpdateUser
    \/ user_password_update

\* ------------------------------------------------------------------------
\* Engine discovery: provisioner_engine_list
\* ------------------------------------------------------------------------

\* what the body of the try does for one engine: the class is found and
\* get_parameter_schema() returns (the class with or without a verbose_name),
\* get_parameter_schema() raises NotImplementedError, getattr(module, engine)
\* raises, get_parameter_schema() raises another error
EngineKinds == {"schema", "schema_verbose", "NotImplementedError", "AttributeError", "Exception"}

\* the lists Provisioner.list_engines() returns: engine i is named by its index
EngineLists == UNION {[1..n -> EngineKinds] : n \in 0..MaxEngines}

\* the entry appended in the try body: 'name': 'kqueen.engines.<engine>',
\* 'verbose_name': getattr(_class, 'verbose_name', name), 'parameters':
\* _class.get_parameter_schema()
SchemaEntry(i, kind) ==
    [engine |-> i, name |-> "module_path.engine",
     verbose_name |-> IF kind = "schema_verbose" THEN "verbose_name" ELSE "module_path.engine",
     provisioner |-> "schema", cluster |-> "schema"]

\* the entry appended in except NotImplementedError: 'name': engine,
\* 'verbose_name': engine, 'parameters': {'provisioner': {}, 'cluster': {}}
EmptyEntry(i) ==
    [engine |-> i, name |-> "engine", verbose_name |-> "engine",
     provisioner |-> "{}", cluster |-> "{}"]

InitEngines ==
    /\ epc = "loop"
    /\ engines \in EngineLists
    /\ eidx = 1
    /\ engine_cls = <<>>
    /\ eresp = 0

\* no engine discovery request is served
ParkEngines ==
    /\ epc = "off"
    /\ engines = <<>>
    /\ eidx = 1
    /\ engine_cls = <<>>
    /\ eresp = 0

\* one iteration of the loop with the try around the whole loop: an error of
\* one engine ends the loop
engine_list_step_abort ==
    /\ epc = "loop"
    /\ eidx <= Len(engines)
    /\ LET kind == engines[eidx] IN
       /\ engine_cls' =
            IF kind \in {"schema", "schema_verbose"}
              THEN Append(engine_cls, SchemaEntry(eidx, kind))
              ELSE engine_cls
       /\ eidx' = IF kind \in {"schema", "schema_verbose"} THEN eidx + 1 ELSE Len(engines) + 1
    /\ UNCHANGED <<epc, engines, eresp>>
    /\ UNCHANGED notEngines

\* provisioner_engine_list: one iteration of `for engine in
\* Provisioner.list_engines()`: the try body and its two except clauses
engine_list_step ==
    /\ epc = "loop"
    /\ eidx <= Len(engines)
    /\ LET kind == engines[eidx] IN
       engine_cls' =
            IF kind \in {"schema", "schema_verbose"}
              THEN Append(engine_cls, SchemaEntry(eidx, kind))
            ELSE IF kind = "NotImplementedError"
              THEN Append(engine_cls, EmptyEntry(eidx))
              ELSE engine_cls
    /\ eidx' = eidx + 1
    /\ UNCHANGED <<epc, engines, eresp>>
    /\ UNCHANGED notEngines

\* provisioner_engine_list: return jsonify(engine_cls)
provisioner_engine_list ==
    /\ epc = "loop"
    /\ eidx > Len(engines)
    /\ eresp' = 200
    /\ epc' = "done"
    /\ UNCHANGED <<engines, eidx, engine_cls>>
    /\ UNCHANGED notEngines

NextEngines ==
    \/ engine_list_step
    \/ provisioner_engine_list

\* ------------------------------------------------------------------------
\* Cluster health: GetClustersHealth
\* ------------------------------------------------------------------------

\* A Python float is an IEEE-754 double: a float is modelled by the DBL_MANT_DIG
\* bits of its significand, most significant first (the first bit is 1), and
\* the exponent of the first bit: its value is
\* sum of m[i] * 2^(e - i + 1).
DBL_MANT_DIG == 53

\* the bits of the number q, before the bits acc
RECURSIVE NatBits(_, _)
NatBits(q, acc) ==
    IF q = 0 THEN acc ELSE NatBits(q \div 2, <<q % 2>> \o acc)

\* the number whose bits are the first n bits of b
RECURSIVE BitsNat(_, _)
BitsNat(b, n) ==
    IF n = 0 THEN 0 ELSE 2 * BitsNat(b, n - 1) + b[n]

\* b + 1 on the bits b (not all 1): the last 0 becomes 1, the 1s after it 0
Inc(b) ==
    LET k == CHOOSE j \in 1..Len(b) : b[j] = 0 /\ \A i \in (j + 1)..Len(b) : b[i] = 1
    IN  [i \in 1..Len(b) |-> IF i < k THEN b[i] ELSE IF i = k THEN 1 ELSE 0]

\* round to nearest, ties to even: the float of the exact value whose first
\* bits are bits (first bit 1, of exponent exp), followed by a nonzero
\* (sticky) or zero rest
RoundHalfEven(bits, exp, sticky) ==
    IF Len(bits) <= DBL_MANT_DIG
      THEN [m |-> bits \o [i \in 1..(DBL_MANT_DIG - Len(bits)) |-> 0], e |-> exp]
      ELSE LET mant == SubSeq(bits, 1, DBL_MANT_DIG)
               half == bits[DBL_MANT_DIG + 1]
               rest == sticky \/ \E i \in (DBL_MANT_DIG + 2)..Len(bits) : bits[i] = 1
               up == half = 1 /\ (rest \/ mant[DBL_MANT_DIG] = 1)
           IN  IF ~up THEN [m |-> mant, e |-> exp]
               ELSE IF \A i \in 1..DBL_MANT_DIG : mant[i] = 1
                 THEN [m |-> <<1>> \o [i \in 1..(DBL_MANT_DIG - 1) |-> 0], e |-> exp + 1]
                 ELSE [m |-> Inc(mant), e |-> exp]

\* 2^k modulo b
RECURSIVE PowMod2(_, _)
PowMod2(k, b) ==
    IF k = 0 THEN 1 % b ELSE (2 * PowMod2(k - 1, b)) % b

\* long division: the remainder of a / b (a < b) left after n bits of the
\* quotient, and the n-th bit of the quotient after the point
DivRem(a, b, n) == (a * PowMod2(n, b)) % b
DivBit(a, b, n) == IF 2 * DivRem(a, b, n - 1) >= b THEN 1 ELSE 0

\* the number of zero bits a / b (0 < a < b) starts with after the point
RECURSIVE LeadingZeros(_, _)
LeadingZeros(a, b) ==
    IF 2 * a >= b THEN 0 ELSE 1 + LeadingZeros(2 * a, b)

\* a / b for ints 0 < a <= b: the correctly rounded quotient
TrueDiv(a, b) ==
    IF a = b
      THEN RoundHalfEven(<<1>>, 0, FALSE)
      ELSE LET z == LeadingZeros(a, b)
           IN  RoundHalfEven([i \in 1..(DBL_MANT_DIG + 1) |-> DivBit(a, b, z + i)],
                             0 - (z + 1),
                             DivRem(a, b, z + DBL_MANT_DIG + 1) # 0)

\* multiplication of the bits b by a small int c, from the last bit on: the
\* carry out of the bits after the n-th
RECURSIVE MulCarry(_, _, _)
MulCarry(b, n, c) ==
    IF n = Len(b) THEN 0 ELSE (b[n + 1] * c + MulCarry(b, n + 1, c)) \div 2

\* the bits of b * c
MulSmall(b, c) ==
    NatBits(MulCarry(b, 0, c), <<>>) \o [n \in 1..Len(b) |-> (b[n] * c + MulCarry(b, n, c)) % 2]

\* x * c for a float x and an int c > 0: the exact product, rounded
FloatMulInt(x, c) ==
    LET p == MulSmall(x.m, c)
    IN  RoundHalfEven(p, x.e - (DBL_MANT_DIG - 1) + (Len(p) - 1), FALSE)

\* int(x) for a float x >= 0 below 2^DBL_MANT_DIG: truncation
FloatToInt(x) ==
    IF x.e < 0 THEN 0 ELSE BitsNat(x.m, x.e + 1)

\* the collections: the number of clusters in each state
HealthCollections ==
    {c \in [ClusterStates -> 0..MaxOK] :
        /\ c[CLUSTER_ERROR_STATE] <= MaxError
        /\ \A st \in ClusterStates \ {CLUSTER_OK_STATE, CLUSTER_ERROR_STATE} : c[st] <= MaxOther}

\* the number of clusters of the collection c whose state is in S
RECURSIVE Count(_, _)
Count(c, S) ==
    IF S = {} THEN 0
    ELSE LET st == CHOOSE x \in S : TRUE IN c[st] + Count(c, S \ {st})

NoHealth == [total |-> 0 - 1, healthy_percentage |-> 0 - 1]

InitHealth ==
    /\ hpc = "start"
    /\ clusters \in HealthCollections
    /\ hresp = NoHealth

\* no health request is served
ParkHealth ==
    /\ hpc = "off"
    /\ clusters = [st \in ClusterStates |-> 0]
    /\ hresp = NoHealth

\* the counters after the for loop
deployed_clusters == Count(clusters, ClusterStates \ {CLUSTER_PROVISIONING_STATE})
healthy_clusters == Count(clusters, {CLUSTER_UPDATING_STATE, CLUSTER_OK_STATE})

\* int((healthy_clusters / deployed_clusters) * 100), guarded
cluster_health ==
    IF healthy_clusters # 0 /\ deployed_clusters # 0
      THEN FloatToInt(FloatMulInt(TrueDiv(healthy_clusters, deployed_clusters), 100))
      ELSE 0

\* GetClustersHealth.get_content
GetClustersHealth ==
    /\ hpc = "start"
    /\ hresp' = [total |-> Count(clusters, ClusterStates),
                 healthy_percentage |-> cluster_health]
    /\ hpc' = "done"
    /\ UNCHANGED clusters
    /\ UNCHANGED notHealth

NextHealth == GetClustersHealth

\* ------------------------------------------------------------------------
\* Filtering and sorting: filter_objects, sort_objects of ListClusters and
\* ListProvisioners
\* ------------------------------------------------------------------------

\* a str is the sequence of its code points: 'A' is 65, 'a' 97, 'b' 98
Lower(ch) == IF ch \in 65..90 THEN ch + 32 ELSE ch

\* a str as it is
same_case(str) == str

\* str.lower()
lower(str) == [i \in 1..Len(str) |-> Lower(str[i])]

\* sub in str
In(sub, str) ==
    \E i \in 0..(Len(str) - Len(sub)) : SubSeq(str, i + 1, i + Len(sub)) = sub

\* s < t for two str, or two tuples of ints: the first difference decides, a
\* proper prefix is smaller
SeqLess(s, t) ==
    \E i \in 1..Len(t) :
        /\ i <= Len(s) + 1
        /\ \A j \in 1..(i - 1) : s[j] = t[j]
        /\ (i = Len(s) + 1 \/ s[i] < t[i])

\* k1 < k2 for two key tuples of the same view and key: the first component
\* that differs decides
TupleLess(k1, k2) ==
    \E i \in 1..Len(k1) :
        /\ \A j \in 1..(i - 1) : k1[j] = k2[j]
        /\ SeqLess(k1[i], k2[i])

\* the names of the objects and of their provisioners, the engines: "a", "Ab"
ObjectNames == {<<97>>, <<65, 98>>}
EngineNames == {<<97>>, <<65, 98>>}
\* the values of created_at
CreatedAt == {<<1>>, <<2>>}
\* the states the sorted objects are in, as str: "Error", "OK"
SortStates == {<<69, 114, 114, 111, 114>>, <<79, 75>>}

\* the objects of a list of ListClusters and of ListProvisioners, without id
ClusterAttrs == [name : ObjectNames, created_at : CreatedAt, state : SortStates,
                 provisioner : [name : ObjectNames]]
ProvisionerAttrs == [name : ObjectNames, created_at : CreatedAt, state : SortStates,
                     engine : EngineNames]

WithId(o, id) ==
    IF "engine" \in DOMAIN o
      THEN [id |-> <<id>>, name |-> o.name, created_at |-> o.created_at, state |-> o.state,
            engine |-> o.engine]
      ELSE [id |-> <<id>>, name |-> o.name, created_at |-> o.created_at, state |-> o.state,
            provisioner |-> o.provisioner]

\* the lists of at most MaxList objects of one view: the ids are distinct
ObjectLists(attrs) ==
    UNION {{[i \in 1..n |-> WithId(os[i], ids[i])] :
              os \in [1..n -> attrs],
              ids \in {f \in [1..n -> 1..MaxList] : \A i, j \in 1..n : i # j => f[i] # f[j]}} :
           n \in 0..MaxList}

QueryViews == {"ListClusters", "ListProvisioners"}

\* the keys of supported_sort_fields
SortKeys(v) ==
    IF v = "ListClusters"
      THEN {"name", "provisioner", "created_at", "created", "status", "state"}
      ELSE {"name", "engine", "created_at", "created", "status", "state"}

\* the values of order: 'asc', 'desc' and another one
Orders == {"asc", "desc", "ascending"}

\* supported_sort_fields[key](x) without the trailing x.id
sort_fields_without_id(v, key, x) ==
    CASE key = "name" -> <<x.name, x.created_at>>
      [] key = "provisioner" -> <<x.provisioner.name, x.name>>
      [] key = "engine" -> <<x.engine, x.name>>
      [] key \in {"created_at", "created"} ->
            IF v = "ListClusters" THEN <<x.created_at, x.name>> ELSE <<x.created_at>>
      [] key \in {"status", "state"} -> <<x.state, x.name>>

\* supported_sort_fields[key](x) of the view v
supported_sort_fields(v, key, x) ==
    CASE key = "name" -> <<x.name, x.created_at, x.id>>
      [] key = "provisioner" -> <<x.provisioner.name, x.name, x.id>>
      [] key = "engine" -> <<x.engine, x.name, x.id>>
      [] key \in {"created_at", "created"} ->
            IF v = "ListClusters" THEN <<x.created_at, x.name, x.id>>
                                  ELSE <<x.created_at, x.id>>
      [] key \in {"status", "state"} -> <<x.state, x.name, x.id>>

\* sorted(iterable, key=key, reverse=reverse): the stable sort; the element
\* at i goes behind the elements of a smaller key (of a greater key when
\* reverse) and behind the elements before i of the same key
sorted(iterable, keyOf, reverse) ==
    LET n == Len(iterable)
        Before(j, i) ==
            \/ IF reverse THEN TupleLess(keyOf[i], keyOf[j]) ELSE TupleLess(keyOf[j], keyOf[i])
            \/ keyOf[j] = keyOf[i] /\ j < i
        pos == [i \in 1..n |-> 1 + Cardinality({j \in 1..n : Before(j, i)})]
    IN  [p \in 1..n |-> iterable[CHOOSE i \in 1..n : pos[i] = p]]

\* sort_objects(self, objects, key, order) of the view v
sort_objects(v, objects, key, order) ==
    sorted(objects,
           [i \in 1..Len(objects) |-> supported_sort_fields(v, key, objects[i])],
           order = "asc")

\* the fields of x that supported_sort_fields[key](x) reads, x.id apart
FieldsRead(key) ==
    CASE key = "name" -> {"name", "created_at"}
      [] key = "provisioner" -> {"provisioner", "name"}
      [] key = "engine" -> {"engine", "name"}
      [] key \in {"created_at", "created"} -> {"created_at", "name"}
      [] key \in {"status", "state"} -> {"state", "name"}

\* the objects to sort by key: the fields the key does not read have one
\* value, the others every value
SortAttrs(v, key) ==
    LET attrs == IF v = "ListClusters" THEN ClusterAttrs ELSE ProvisionerAttrs
        fixed == CHOOSE o \in attrs : TRUE
    IN  {o \in attrs : \A f \in DOMAIN o \ FieldsRead(key) : o[f] = fixed[f]}

InitSort ==
    /\ qpc = "sort"
    /\ qview \in QueryViews
    /\ qkey \in SortKeys(qview)
    /\ qobjects \in ObjectLists(SortAttrs(qview, qkey))
    /\ qfilters = <<>>
    /\ qorder = "none"
    /\ qresult = <<>>

\* no list is filtered or sorted
ParkQuery ==
    /\ qpc = "off"
    /\ qview = "none"
    /\ qobjects = <<>>
    /\ qfilters = <<>>
    /\ qkey = "none"
    /\ qorder = "none"
    /\ qresult = <<>>

\* a call of sort_objects with a supported key
call_sort_objects ==
    /\ qpc = "sort"
    /\ \E order \in Orders :
          /\ qorder' = order
          /\ qresult' = sort_objects(qview, qobjects, qkey, order)
    /\ qpc' = "sorted"
    /\ UNCHANGED <<qview, qobjects, qfilters, qkey>>
    /\ UNCHANGED notQuery

NextSort == call_sort_objects

\* the keys of a request's filters: the three of the two tables
FilterKeys == {"name", "provisioner", "engine"}

\* the values of a filter: "", "A", "b", "aB"
FilterValues == {<<>>, <<65>>, <<98>>, <<97, 66>>}

\* the argument filters: a dict of some keys
Filters == UNION {[K -> FilterValues] : K \in SUBSET FilterKeys}

\* get_cluster_attr / get_provisioner_attr: its keys
FilterAttrKeys(v) ==
    IF v = "ListClusters" THEN {"name", "provisioner"} ELSE {"name", "engine"}

\* get_cluster_attr[key](x) / get_provisioner_attr[key](x)
get_attr(key, x) ==
    CASE key = "name" -> x.name
      [] key = "provisioner" -> x.provisioner.name
      [] key = "engine" -> x.engine

\* filter_objects(self, objects, filters) of the view v
filter_objects(v, objects, filters) ==
    IF DOMAIN filters = {}
      THEN objects
      ELSE LET filter_keys == DOMAIN filters \cap FilterAttrKeys(v)
               keep(x) == \A key \in filter_keys :
                             In(lower(filters[key]), lower(get_attr(key, x)))
           IN  SelectSeq(objects, keep)

\* the objects to filter: the fields no filter reads have one value
FilterAttrs(v) ==
    LET attrs == IF v = "ListClusters" THEN ClusterAttrs ELSE ProvisionerAttrs
        fixed == CHOOSE o \in attrs : TRUE
    IN  {o \in attrs : \A f \in {"created_at", "state"} : o[f] = fixed[f]}

InitFilter ==
    /\ qpc = "filter"
    /\ qview \in QueryViews
    /\ qobjects \in ObjectLists(FilterAttrs(qview))
    /\ qfilters \in Filters
    /\ qkey = "none"
    /\ qorder = "none"
    /\ qresult = <<>>

\* a call of filter_objects
call_filter_objects ==
    /\ qpc = "filter"
    /\ qresult' = filter_objects(qview, qobjects, qfilters)
    /\ qpc' = "filtered"
    /\ UNCHANGED <<qview, qobjects, qfilters, qkey, qorder>>
    /\ UNCHANGED notQuery

NextFilter == call_filter_objects

\* ------------------------------------------------------------------------
\* Organization policy: organization_policy
\* ------------------------------------------------------------------------

Orgs == 1..NOrgs

\* the keys of a policy dict and the rules
PolicyKeys == {"cluster:get", "cluster:delete"}
DefaultRule == "IS_ADMIN"
OverrideRules == {"ALL", "IS_OWNER"}

\* the dict configured under DEFAULT_POLICIES
ConfiguredPolicies == [k \in PolicyKeys |-> DefaultRule]

\* the policy attribute of an organization: absent or empty, or some overrides
OrgPolicies == UNION {[K -> OverrideRules] : K \in SUBSET PolicyKeys}

\* dict.update: d with the entries of u
update(d, u) ==
    [k \in DOMAIN d \cup DOMAIN u |-> IF k \in DOMAIN u THEN u[k] ELSE d[k]]

InitPolicy ==
    /\ served = 0
    /\ DEFAULT_POLICIES = ConfiguredPolicies
    /\ org_policy \in [Orgs -> OrgPolicies]
    /\ porg = 0
    /\ presp = ConfiguredPolicies

\* no policy request is served
ParkPolicy ==
    /\ served = 0
    /\ DEFAULT_POLICIES = ConfiguredPolicies
    /\ org_policy = [o \in Orgs |-> [k \in {} |-> DefaultRule]]
    /\ porg = 0
    /\ presp = ConfiguredPolicies

\* organization_policy(pk): policies is the dict config holds, not a copy of
\* it, so policies.update changes that dict
organization_policy(pk) ==
    /\ served < MaxPolicyRequests
    /\ porg' = pk
    /\ LET policies == IF DOMAIN org_policy[pk] # {}
                         THEN update(DEFAULT_POLICIES, org_policy[pk])
                         ELSE DEFAULT_POLICIES
       IN  /\ DEFAULT_POLICIES' = policies
           /\ presp' = policies
    /\ served' = served + 1
    /\ UNCHANGED org_policy
    /\ UNCHANGED notPolicy

NextPolicy == \E pk \in Orgs : organization_policy(pk)

\* ------------------------------------------------------------------------
\* Auth configuration: auth_params_configuration
\* ------------------------------------------------------------------------

\* what the loop body does for one module: the class is found and
\* get_parameter_schema() returns, get_parameter_schema() raises
\* NotImplementedError, getattr(module, auth_cls_name) raises,
\* get_parameter_schema() raises another error
AuthKinds == {"schema", "NotImplementedError", "AttributeError", "Exception"}

\* the names of the parameters of a module, as str: "_p", "u"
ParamNames == {<<95, 112>>, <<117>>}

\* k.startswith('_')
startswith_underscore(k) == Len(k) >= 1 /\ k[1] = 95

\* configuration['parameters'] as generate_auth_options returns it: the
\* configured values
ParamDicts == UNION {[K -> {"configured"}] : K \in SUBSET ParamNames}

\* the dicts generate_auth_options returns: module i is named by its index
AuthOptions ==
    UNION {[1..n -> [engine : AuthKinds, parameters : ParamDicts, ui_parameters : {"none"}]] :
           n \in 0..MaxAuthModules}

\* secure_params of a configuration
secure_params(configuration) ==
    [k \in DOMAIN configuration.parameters |->
        IF startswith_underscore(k) THEN "*****" ELSE configuration.parameters[k]]

InitAuth ==
    /\ apc = "loop"
    /\ auth_opts \in AuthOptions
    /\ aidx = 1
    /\ aresp = 0

\* no auth configuration request is served
ParkAuth ==
    /\ apc = "off"
    /\ auth_opts = <<>>
    /\ aidx = 1
    /\ aresp = 0

\* auth_params_configuration: one iteration of `for name, configuration in
\* auth_opts.items()` inside the try: an exception of the body, raised before
\* auth_opts[name].update, ends the loop
auth_params_step ==
    /\ apc = "loop"
    /\ aidx <= Len(auth_opts)
    /\ LET configuration == auth_opts[aidx] IN
       IF configuration.engine = "schema"
         THEN /\ auth_opts' = [auth_opts EXCEPT ![aidx] =
                                  [engine |-> configuration.engine,
                                   parameters |-> secure_params(configuration),
                                   ui_parameters |-> "schema"]]
              /\ aidx' = aidx + 1
         ELSE /\ aidx' = Len(auth_opts) + 1
              /\ UNCHANGED auth_opts
    /\ UNCHANGED <<apc, aresp>>
    /\ UNCHANGED notAuth

\* auth_params_configuration: return jsonify(auth_opts)
auth_params_configuration ==
    /\ apc = "loop"
    /\ aidx > Len(auth_opts)
    /\ aresp' = 200
    /\ apc' = "done"
    /\ UNCHANGED <<auth_opts, aidx>>
    /\ UNCHANGED notAuth

NextAuth ==
    \/ auth_params_step
    \/ auth_params_configuration

\* ------------------------------------------------------------------------
\* Single cluster: GetCluster.dispatch_request
\* ------------------------------------------------------------------------

\* a secure field of a cluster is "unset", "stored" or, by a refresh,
\* "populated"; masked, it is
Masked == "*****"

\* the clusters a request loads
Clusters == [state : ClusterStates, secure : {"unset", "stored"}]

NoCluster == [state |-> "none", secure |-> "none"]
NoGetResponse == [code |-> 0, body |-> NoCluster]

\* hide_secure_data(obj): a copy of the object with its secure fields masked
hide_secure_data(obj) ==
    [state |-> obj.state, secure |-> IF obj.secure = "unset" THEN "unset" ELSE Masked]

\* the statements with the redaction before the refresh
StatementsHideFirst == <<"get_content", "hide_secure_data", "update_state", "jsonify", "done">>

\* the statements of dispatch_request after check_authorization, in order
Statements == <<"get_content", "update_state", "hide_secure_data", "jsonify", "done">>

\* the statement executed after the statement pc
StatementAfter(pc) ==
    LET i == CHOOSE j \in 1..Len(Statements) : Statements[j] = pc
    IN  Statements[i + 1]

InitGet ==
    /\ gpc = "check_authentication"
    /\ gcaller \in [authenticated : BOOLEAN, found : BOOLEAN, authorized : BOOLEAN]
    /\ gobj \in Clusters
    /\ grefreshed = FALSE
    /\ gcluster = NoCluster
    /\ gresp = NoGetResponse

\* no single cluster request is served
ParkGet ==
    /\ gpc = "off"
    /\ gcaller = [authenticated |-> FALSE, found |-> FALSE, authorized |-> FALSE]
    /\ gobj = NoCluster
    /\ grefreshed = FALSE
    /\ gcluster = NoCluster
    /\ gresp = NoGetResponse

\* self.check_authentication(), self.set_object(), self.check_authorization()
GetCluster_checks ==
    /\ gpc = "check_authentication"
    /\ IF ~gcaller.authenticated
         THEN gresp' = [code |-> 401, body |-> NoCluster] /\ gpc' = "done"
       ELSE IF ~gcaller.found
         THEN gresp' = [code |-> 404, body |-> NoCluster] /\ gpc' = "done"
       ELSE IF ~gcaller.authorized
         THEN gresp' = [code |-> 403, body |-> NoCluster] /\ gpc' = "done"
       ELSE gpc' = "get_content" /\ UNCHANGED gresp
    /\ UNCHANGED <<gcaller, gobj, grefreshed, gcluster>>
    /\ UNCHANGED notGet

\* cluster = self.get_content(*args, hide_secure_data=False, **kwargs): the
\* local variable is self.obj itself
GetCluster_get_content ==
    /\ gpc = "get_content"
    /\ gpc' = StatementAfter(gpc)
    /\ UNCHANGED <<gcaller, gobj, grefreshed, gcluster, gresp>>
    /\ UNCHANGED notGet

\* cluster.update_state(): stores the observed state in the object and may
\* populate its secure field, or raises
GetCluster_update_state ==
    /\ gpc = "update_state"
    /\ \/ /\ \E st \in ObservedStates, sec \in {gobj.secure, "populated"} :
                gobj' = [state |-> st, secure |-> sec]
          /\ grefreshed' = TRUE
          /\ gpc' = StatementAfter(gpc)
          /\ UNCHANGED gresp
       \/ /\ gresp' = [code |-> 500, body |-> NoCluster]
          /\ gpc' = "done"
          /\ UNCHANGED <<gobj, grefreshed>>
    /\ UNCHANGED <<gcaller, gcluster>>
    /\ UNCHANGED notGet

\* cluster = self.hide_secure_data(self.obj)
GetCluster_hide_secure_data ==
    /\ gpc = "hide_secure_data"
    /\ gcluster' = hide_secure_data(gobj)
    /\ gpc' = StatementAfter(gpc)
    /\ UNCHANGED <<gcaller, gobj, grefreshed, gresp>>
    /\ UNCHANGED notGet

\* return jsonify(cluster)
GetCluster_jsonify ==
    /\ gpc = "jsonify"
    /\ gresp' = [code |-> 200, body |-> gcluster]
    /\ gpc' = StatementAfter(gpc)
    /\ UNCHANGED <<gcaller, gobj, grefreshed, gcluster>>
    /\ UNCHANGED notGet

NextGet ==
    \/ GetCluster_checks
    \/ GetCluster_get_content
    \/ GetCluster_update_state
    \/ GetCluster_hide_secure_data
    \/ GetCluster_jsonify

\* ------------------------------------------------------------------------
\* Specifications
\* ------------------------------------------------------------------------

\* no create request is served
ParkCreate ==
    /\ cpc = "off"
    /\ provState = [p \in Provs |-> PROVISIONER_OK_STATE]
    /\ store = [c \in ClusterIds |-> "absent"]
    /\ cobj = NoObj
    /\ provision = NoProvision
    /\ cresp = NoResponse

\* no engine endpoint is served
ParkOps ==
    /\ opc = "off"
    /\ handler = "none"
    /\ body = NoBody
    /\ cstate = CLUSTER_UNKNOWN_STATE
    /\ engineCall = NoEngineCall
    /\ oresp = NoOpsResponse

\* no user endpoint is served
ParkUsers ==
    /\ upc = "off"
    /\ uhandler = "none"
    /\ udata = NoUserBody
    /\ user = [password |-> encrypt_password("pw1"), email |-> "a@x"]
    /\ uobj = user
    /\ uresp = 0
    /\ uallowed = TRUE

\* none of the other endpoints is served
ParkRest == ParkEngines /\ ParkHealth /\ ParkQuery /\ ParkPolicy /\ ParkAuth /\ ParkGet

\* one list request with its executor jobs
Init == InitList /\ ParkCreate /\ ParkOps /\ ParkUsers /\ ParkRest
Spec == Init /\ [][NextList]_vars

\* a sequence of cluster create requests
InitSpecCreate == InitCreate /\ ParkList /\ ParkOps /\ ParkUsers /\ ParkRest
SpecCreate == InitSpecCreate /\ [][NextCreate]_vars

\* a sequence of requests to the engine endpoints of one cluster
InitSpecOps == InitOps /\ ParkList /\ ParkCreate /\ ParkUsers /\ ParkRest
SpecOps == InitSpecOps /\ [][NextOps]_vars

\* a sequence of requests to the two user update endpoints of one user
InitSpecUsers == InitUsers /\ ParkList /\ ParkCreate /\ ParkOps /\ ParkRest
SpecUsers == InitSpecUsers /\ [][NextUsers]_vars

\* one engine discovery request
InitSpecEngines == InitEngines /\ ParkList /\ ParkCreate /\ ParkOps /\ ParkUsers /\ ParkHealth /\ ParkQuery /\ ParkPolicy /\ ParkAuth /\ ParkGet
SpecEngines == InitSpecEngines /\ [][NextEngines]_vars

\* one cluster health request
InitSpecHealth == InitHealth /\ ParkList /\ ParkCreate /\ ParkOps /\ ParkUsers /\ ParkEngines /\ ParkQuery /\ ParkPolicy /\ ParkAuth /\ ParkGet
SpecHealth == InitSpecHealth /\ [][NextHealth]_vars

\* one call of sort_objects
InitSpecSort == InitSort /\ ParkList /\ ParkCreate /\ ParkOps /\ ParkUsers /\ ParkEngines /\ ParkHealth /\ ParkPolicy /\ ParkAuth /\ ParkGet
SpecSort == InitSpecSort /\ [][NextSort]_vars

\* one call of filter_objects
InitSpecFilter == InitFilter /\ ParkList /\ ParkCreate /\ ParkOps /\ ParkUsers /\ ParkEngines /\ ParkHealth /\ ParkPolicy /\ ParkAuth /\ ParkGet
SpecFilter == InitSpecFilter /\ [][NextFilter]_vars

\* a sequence of policy requests
InitSpecPolicy ==
    /\ InitPolicy /\ ParkList /\ ParkCreate /\ ParkOps /\ ParkUsers
    /\ ParkEngines /\ ParkHealth /\ ParkQuery /\ ParkAuth /\ ParkGet
SpecPolicy == InitSpecPolicy /\ [][NextPolicy]_vars

\* one auth configuration request
InitSpecAuth ==
    /\ InitAuth /\ ParkList /\ ParkCreate /\ ParkOps /\ ParkUsers
    /\ ParkEngines /\ ParkHealth /\ ParkQuery /\ ParkPolicy /\ ParkGet
SpecAuth == InitSpecAuth /\ [][NextAuth]_vars

\* one single cluster request
InitSpecGet ==
    /\ InitGet /\ ParkList /\ ParkCreate /\ ParkOps /\ ParkUsers
    /\ ParkEngines /\ ParkHealth /\ ParkQuery /\ ParkPolicy /\ ParkAuth
SpecGet == InitSpecGet /\ [][NextGet]_vars

\* ------------------------------------------------------------------------
\* Claims about the list views (checked under Spec)
\* ------------------------------------------------------------------------

\* the executor job of o has been submitted and has not finished
InExecutor(o) == thr[o] \in {"queued", "running"}

\* the fallback loop is inside the refresh operation of o
InFallback(o) == lpc = "fallback_running" /\ Collection[fbIdx] = o

\* C1: with state refresh on list enabled, no exception escapes the list call
\* and, in the response, every object whose refresh succeeded has the state
\* the refresh produced and every object whose refresh raised has the state it
\* had before the request.
C1_RefreshNeverEscapes ==
    /\ lpc # "raised"
    /\ (lpc = "done" /\ flag) =>
          \A o \in Objs :
             /\ response.outcomes[o] \in ObservedStates
                   => response.states[o] = response.outcomes[o]
             /\ response.outcomes[o] = "raised" => response.states[o] = prev[o]

\* C2: within one list request no object is refreshed more than once, and no
\* object has its refresh operation running in an executor thread while the
\* fallback loop invokes it too.
C2_OneRefreshPerObject ==
    \A o \in Objs :
       /\ calls[o] <= 1
       /\ ~(thr[o] = "running" /\ InFallback(o))

\* C3: when the parent get_content is called to build the response, and from
\* then on, no refresh operation this request submitted to the executor is
\* still queued or running.
C3_SerializedAfterAllRefreshes ==
    lpc \in {"serialize", "done"} => \A o \in Objs : ~InExecutor(o)

\* C4: once the fallback is taken, the refresh operations are invoked
\* sequentially in the original collection order, for every object, and no
\* error leaves the list call: the request ends with a list response.
C4_FallbackNeverPropagates ==
    /\ \A i \in 1..Len(fbOrder) : fbOrder[i] = Collection[i]
    /\ (fbOrder # <<>> /\ lpc \in {"serialize", "done"}) => Len(fbOrder) = NObjs
    /\ lpc # "raised"

\* ------------------------------------------------------------------------
\* Claims about cluster creation (checked under SpecCreate)
\* ------------------------------------------------------------------------

\* the provisioner of the cluster being created is not in the OK state
BadProvisioner == provState[cobj.provisioner] # PROVISIONER_OK_STATE

\* C5: a create request for a cluster whose provisioner is not in the OK state
\* never gets past save_object: it ends with the 500 'Cannot create cluster
\* with malfunctioning Provisioner', the cluster is not persisted and
\* engine.provision() is not invoked.
C5_NoCreateOnBadProvisioner ==
    (cpc \in {"after_save", "done"} /\ BadProvisioner) =>
        /\ cpc = "done"
        /\ cresp = [code |-> 500, description |-> MalfunctioningMsg]
        /\ store[cobj.id] = "absent"
        /\ provision = NoProvision

\* a create request against a provisioner that is not OK has been answered
C5_Witness == cpc = "done" /\ BadProvisioner /\ cresp.code = 500

\* the create request ended after engine.provision() reported failure
ProvisionFailed == cpc = "done" /\ provision # NoProvision /\ ~provision.status

\* C6: when engine.provision() reports failure, the request fails with the
\* engine's message, the cluster object is in the Error state and the cluster
\* is not left recorded as Provisioning or OK.
C6_ProvisionFailureRecorded ==
    ProvisionFailed =>
        /\ cresp = [code |-> 500, description |-> provision.msg]
        /\ cobj.state = CLUSTER_ERROR_STATE
        /\ store[cobj.id] \notin {CLUSTER_PROVISIONING_STATE, CLUSTER_OK_STATE}

\* ------------------------------------------------------------------------
\* Claims about the engine endpoints (checked under SpecOps)
\* ------------------------------------------------------------------------

\* the body does not carry the field k
Lacks(data, k) == k \notin data.members

\* C7: a resize request whose body is not a JSON object or lacks 'node_count',
\* and a set_network_policy request whose body is empty or lacks 'provider' or
\* 'enabled', ends with a 400 and without an engine call; the engine's resize
\* and set_network_policy are invoked only with the required fields present.
C7_ValidationBeforeEngine ==
    /\ engineCall.op = "resize" => IsDict(body) /\ ~Lacks(body, "node_count")
    /\ engineCall.op = "set_network_policy" =>
          ~body.empty /\ ~Lacks(body, "provider") /\ ~Lacks(body, "enabled")
    /\ (opc = "done" /\ handler = "cluster_resize"
          /\ (~IsDict(body) \/ Lacks(body, "node_count")))
          => oresp.code = 400 /\ engineCall = NoEngineCall
    /\ (opc = "done" /\ handler = "cluster_set_network_policy"
          /\ (body.empty \/ Lacks(body, "provider") \/ Lacks(body, "enabled")))
          => oresp.code = 400 /\ engineCall = NoEngineCall

\* the progress request ended after get_progress() raised NotImplementedError
ProgressUnimplemented ==
    opc = "done" /\ engineCall.op = "get_progress" /\ engineCall.outcome = "NotImplementedError"

\* C8: when get_progress() raises NotImplementedError, the progress request
\* answers 200 with response 501, progress 0 and, as result, the state the
\* update_state() call of this request produced.
C8_UnimplementedProgress ==
    ProgressUnimplemented =>
        oresp = Jsonify([response |-> 501, progress |-> 0, result |-> cstate])

\* C9: a progress request never fails at the transport level: it answers 200
\* whatever get_progress() and the state refresh of the unimplemented path do,
\* and with response 500 and the Unknown state when get_progress() raises
\* anything but NotImplementedError.
C9_ProgressNeverFails ==
    (opc = "done" /\ handler = "cluster_progress") =>
        /\ oresp.code = 200
        /\ engineCall.outcome = "Exception" =>
              oresp.result = [response |-> 500, progress |-> 0, result |-> CLUSTER_UNKNOWN_STATE]

\* ------------------------------------------------------------------------
\* Claims about the user endpoints (checked under SpecUsers)
\* ------------------------------------------------------------------------

\* the step in which UpdateUser.dispatch_request saves the user
GenericUpdateSaves == upc = "patch" /\ uhandler = "UpdateUser" /\ uresp' = 200

\* C10: the stored password changes only in a step of user_password_update,
\* and then to the hash encrypt_password gives for the submitted password; a
\* generic update that saves leaves the stored password as it was and stores
\* the other fields of the payload; the stored password is always a hash.
C10_PasswordOnlyByUpdatepw ==
    [][/\ user'.password # user.password =>
            /\ uhandler = "user_password_update"
            /\ udata.password \in Plaintexts
            /\ user'.password = encrypt_password(udata.password)
       /\ GenericUpdateSaves =>
            /\ user'.password = user.password
            /\ user'.email = IF udata.email # "absent" THEN udata.email ELSE user.email
       /\ user'.password \in Hashes
      ]_vars

\* C11: a request the Policy Engine denies applies no mutation: the stored
\* user is changed by no step of a request whose caller is denied, on the
\* generic update path as on the password update path.
C11_DeniedNeverMutates == [][~uallowed => user' = user]_vars

\* a generic update whose payload holds a password and another field has
\* been saved
C10_Witness ==
    /\ upc = "done"
    /\ uhandler = "UpdateUser"
    /\ uresp = 200
    /\ udata.password \in Plaintexts
    /\ udata.email \in Emails
    /\ user.email = udata.email
    /\ user.password \in Hashes

\* ------------------------------------------------------------------------
\* Claims about engine discovery (checked under SpecEngines)
\* ------------------------------------------------------------------------

\* the engines whose lookup and schema retrieval raise nothing but
\* NotImplementedError, in list order
Reported == SelectSeq([i \in 1..Len(engines) |-> i],
                      LAMBDA i : engines[i] \notin {"AttributeError", "Exception"})

\* C12: engine discovery answers 200 with one entry for every engine whose
\* lookup and schema retrieval did not raise an error other than
\* NotImplementedError, in list order; the entry of an engine that raised
\* NotImplementedError carries empty provisioner and cluster schemas, the
\* others carry the engine's schema; the other engines are skipped.
C12_DiscoveryNeverAborts ==
    epc = "done" =>
        /\ eresp = 200
        /\ Len(engine_cls) = Len(Reported)
        /\ \A j \in 1..Len(Reported) :
              /\ engine_cls[j].engine = Reported[j]
              /\ IF engines[Reported[j]] = "NotImplementedError"
                   THEN engine_cls[j].provisioner = "{}" /\ engine_cls[j].cluster = "{}"
                   ELSE engine_cls[j].provisioner = "schema" /\ engine_cls[j].cluster = "schema"

\* a discovery over an engine that raised an error, one that raised
\* NotImplementedError and, after them, one with a schema has been answered
C12_Witness ==
    /\ epc = "done"
    /\ \E i, j, k \in 1..Len(engines) :
          /\ i < k /\ j < k
          /\ engines[i] \in {"AttributeError", "Exception"}
          /\ engines[j] = "NotImplementedError"
          /\ engines[k] \in {"schema", "schema_verbose"}
    /\ Len(engine_cls) >= 2

\* ------------------------------------------------------------------------
\* Claims about cluster health (checked under SpecHealth)
\* ------------------------------------------------------------------------

\* C13: the health endpoint returns total = the number of clusters and
\* healthy_percentage = floor(100 * healthy / deployed), deployed counting the
\* clusters not in Provisioning and healthy those in OK or Updating, and 0
\* when deployed is 0.
C13_HealthIsFloor ==
    hpc = "done" =>
        LET deployed == Count(clusters, ClusterStates \ {CLUSTER_PROVISIONING_STATE})
            healthy == Count(clusters, {CLUSTER_OK_STATE, CLUSTER_UPDATING_STATE})
        IN  /\ hresp.total = Count(clusters, ClusterStates)
            /\ hresp.healthy_percentage =
                 IF deployed = 0 THEN 0 ELSE (100 * healthy) \div deployed

\* ------------------------------------------------------------------------
\* Claims about sorting (checked under SpecSort)
\* ------------------------------------------------------------------------

\* the objects of the list xs (of distinct ids) arranged by id: one
\* arrangement for all the lists of the same objects
ById(xs) ==
    [p \in 1..Len(xs) |->
        CHOOSE x \in {xs[i] : i \in 1..Len(xs)} :
            Cardinality({i \in 1..Len(xs) : xs[i].id[1] < x.id[1]}) = p - 1]

\* C14: for every supported sort key of both views and either order,
\* sort_objects is idempotent (sorting the sorted list again with the same key
\* and order returns it), the composite key is a total order over objects
\* with distinct ids (every key tuple ends with the id, no two distinct
\* objects have equal keys, one of two is the smaller), and the result does
\* not depend on the order of the input: it is the result for the same
\* objects arranged by id.
C14_SortIdempotentTotal ==
    qpc = "sorted" =>
        LET keyOf(x) == supported_sort_fields(qview, qkey, x)
        IN  /\ sort_objects(qview, qresult, qkey, qorder) = qresult
            /\ \A i \in 1..Len(qobjects) : keyOf(qobjects[i])[Len(keyOf(qobjects[i]))] = qobjects[i].id
            /\ \A i, j \in 1..Len(qobjects) :
                  i # j => /\ keyOf(qobjects[i]) # keyOf(qobjects[j])
                           /\ TupleLess(keyOf(qobjects[i]), keyOf(qobjects[j]))
                                # TupleLess(keyOf(qobjects[j]), keyOf(qobjects[i]))
            /\ sort_objects(qview, ById(qobjects), qkey, qorder) = qresult

\* a list of two objects that differ in their id only, the greater id first,
\* has been sorted
C14_Witness ==
    /\ qpc = "sorted"
    /\ Len(qobjects) >= 2
    /\ \E i, j \in 1..Len(qobjects) :
          /\ i < j
          /\ qobjects[j].id[1] < qobjects[i].id[1]
          /\ sort_fields_without_id(qview, qkey, qobjects[i])
               = sort_fields_without_id(qview, qkey, qobjects[j])

\* C20: sort_objects returns a permutation of its input; with order 'asc'
\* the result is in ascending (non-decreasing) order of the composite key,
\* with any other order in descending order.
C20_AscIsAscending ==
    qpc = "sorted" =>
        LET keyOf(x) == supported_sort_fields(qview, qkey, x)
            n == Len(qresult)
        IN  /\ n = Len(qobjects)
            /\ \A x \in {qobjects[i] : i \in 1..n} \cup {qresult[i] : i \in 1..n} :
                  Cardinality({i \in 1..n : qobjects[i] = x})
                    = Cardinality({i \in 1..n : qresult[i] = x})
            /\ \A i, j \in 1..n :
                  i < j => IF qorder = "asc"
                             THEN ~TupleLess(keyOf(qresult[j]), keyOf(qresult[i]))
                             ELSE ~TupleLess(keyOf(qresult[i]), keyOf(qresult[j]))

\* ------------------------------------------------------------------------
\* Claims about filtering (checked under SpecFilter)
\* ------------------------------------------------------------------------

\* sub is a substring of str, the case of the letters apart
SubstringAnyCase(sub, str) ==
    \E off \in 0..Len(str) :
        /\ off + Len(sub) <= Len(str)
        /\ \A k \in 1..Len(sub) : Lower(sub[k]) = Lower(str[off + k])

\* the object x passes every filter of the request on a field the view
\* filters by
Passes(x) ==
    /\ "name" \in DOMAIN qfilters => SubstringAnyCase(qfilters["name"], x.name)
    /\ (qview = "ListClusters" /\ "provisioner" \in DOMAIN qfilters)
          => SubstringAnyCase(qfilters["provisioner"], x.provisioner.name)
    /\ (qview = "ListProvisioners" /\ "engine" \in DOMAIN qfilters)
          => SubstringAnyCase(qfilters["engine"], x.engine)

\* C19: filter_objects returns, in their original relative order, exactly the
\* objects for which every supported filter key of the request has its value
\* as a case-insensitive substring of the object's field; the other filter
\* keys are ignored, and without filters, or with unsupported keys only, all
\* objects are returned.
C19_FilterExact ==
    qpc = "filtered" =>
        LET kept == {i \in 1..Len(qobjects) : Passes(qobjects[i])}
        IN  /\ Len(qresult) = Cardinality(kept)
            /\ \A p \in 1..Len(qresult) :
                  \E i \in kept :
                      /\ qresult[p] = qobjects[i]
                      /\ Cardinality({j \in kept : j < i}) = p - 1
            /\ DOMAIN qfilters \cap FilterAttrKeys(qview) = {} => qresult = qobjects

\* a list has been filtered by a value that matches one object in another
\* case only and does not match another object, with an unsupported key in
\* the filters
C19_Witness ==
    /\ qpc = "filtered"
    /\ DOMAIN qfilters \ FilterAttrKeys(qview) # {}
    /\ \E key \in DOMAIN qfilters \cap FilterAttrKeys(qview), i, j \in 1..Len(qobjects) :
          /\ SubstringAnyCase(qfilters[key], get_attr(key, qobjects[i]))
          /\ ~In(qfilters[key], get_attr(key, qobjects[i]))
          /\ ~SubstringAnyCase(qfilters[key], get_attr(key, qobjects[j]))
    /\ Len(qresult) = 1
    /\ Len(qobjects) = 2

\* ------------------------------------------------------------------------
\* Claims about the organization policy (checked under SpecPolicy)
\* ------------------------------------------------------------------------

\* C15: a policy request returns the default policies overridden by the
\* organization's own entries and leaves the shared defaults unchanged:
\* after any sequence of requests, a request for an organization without
\* overrides returns exactly the original defaults.
C15_DefaultsNeverLeak ==
    served > 0 =>
        /\ presp = update(ConfiguredPolicies, org_policy[porg])
        /\ DEFAULT_POLICIES = ConfiguredPolicies

\* ------------------------------------------------------------------------
\* Claims about the auth configuration (checked under SpecAuth)
\* ------------------------------------------------------------------------

\* C16: in the response of the auth configuration endpoint every parameter
\* of every module whose name starts with '_' is masked, also when the class
\* lookup or the schema retrieval of some module raises.
C16_SecureParamsMasked ==
    apc = "done" =>
        \A i \in 1..Len(auth_opts) :
            \A k \in DOMAIN auth_opts[i].parameters :
                startswith_underscore(k) => auth_opts[i].parameters[k] = "*****"

\* ------------------------------------------------------------------------
\* Claims about engine failures of the cluster endpoints (checked under
\* SpecOps)
\* ------------------------------------------------------------------------

\* C17: when resize or set_network_policy was dispatched and the engine
\* reported failure, the request fails with a 500 carrying the engine's
\* message and the cluster is in the Error state; the updated cluster object
\* is returned only when the engine reported success.
C17_EngineFailureForcesError ==
    (opc = "done" /\ engineCall.op \in {"resize", "set_network_policy"}) =>
        /\ engineCall.outcome = "failure" =>
              /\ oresp = Abort(500, engineCall.msg)
              /\ cstate = CLUSTER_ERROR_STATE
        /\ oresp = Jsonify(EngineCluster) => engineCall.outcome = "success"

\* ------------------------------------------------------------------------
\* Claims about the single cluster get (checked under SpecGet)
\* ------------------------------------------------------------------------

\* C18: on the single cluster get path the redaction happens strictly after
\* the state refresh: the serialized response is the redacted form of the
\* object as update_state() left it, and no secure field the refresh
\* populated is returned unmasked; the object is not redacted before the
\* refresh.
C18_RedactionAfterRefresh ==
    /\ gpc = "update_state" => gcluster = NoCluster
    /\ gresp.code = 200 =>
          /\ grefreshed
          /\ gresp.body = hide_secure_data(gobj)
          /\ gresp.body.secure \notin {"stored", "populated"}

\* a cluster whose refresh populated the secure field has been returned
C18_Witness ==
    /\ gresp.code = 200
    /\ grefreshed
    /\ gobj.secure = "populated"
    /\ gresp.body.secure = Masked
    /\ gresp.body.state = gobj.state

====
